---------------------------- MODULE Spec2Model ----------------------------
(***************************************************************************)
(* Model of the epoll proxy: the connection pool (connection.c), the byte  *)
(* buffers (src/network/buffer.c), the request framer (http_request.c)     *)
(* and the event loop with its handlers (proxy.c).                         *)
(*                                                                         *)
(* Units.  A buffer cell stands for one protocol unit of the byte stream:  *)
(* a request line with its CRLF, one header line with its CRLF, the blank  *)
(* line that ends the headers, one body byte, one byte of upstream data or *)
(* one unit of a synthesized response.  Sizes are scaled accordingly.      *)
(*                                                                         *)
(* Connection states are modelled by name.  connection.c tests the names   *)
(* CONN_READING and CONN_WRITING (src/config.h); proxy.c assigns only the  *)
(* names of src/include/config.h, so no slot is ever in READING/WRITING.   *)
(***************************************************************************)
EXTENDS Integers, Sequences, FiniteSets, TLC

\* ------------------------------------------------------------------ sizes
\* src/include/config.h:13 (10000), scaled
MAX_CONNECTIONS == 3
\* src/include/config.h:19 (16384), scaled to cells
BUFFER_SIZE == 4
\* src/proxy.c:701 compaction threshold (1024 of 16384), scaled
COMPACT_THRESHOLD == 1
\* src/include/config.h:28: 10 MiB = 640 buffers
MAX_REQUEST_SIZE == 640 * BUFFER_SIZE
\* src/include/config.h:30
MAX_REQUESTS_PER_CONN == 1000
\* src/http_request.h:41
MAX_HEADERS == 64

\* longest sequence of read() results one read drain consumes
MaxReads == 1
\* longest sequence of write() results one write drain consumes
MaxWrites == 1
\* most connections one accept drain takes from the listen queue
MaxAccepts == 1
\* most events one epoll_wait batch returns
MaxBatch == 1
\* most events and system call results the environment supplies in one run
\* (an event counts one, and one more for each result after its first)
MaxSteps == 5
\* longest input handed to the request framer on its own
MaxData == 5
\* most bytes one append call is given when the buffer is exercised on its own
MaxAppend == 3

Slots == 0 .. (MAX_CONNECTIONS - 1)
NULL == -1
\* accept()/socket() return the lowest unused descriptor; with at most
\* MAX_CONNECTIONS sockets held by slots, one more can be open transiently.
Fds == 0 .. MAX_CONNECTIONS

Min(a, b) == IF a < b THEN a ELSE b

\* --------------------------------------------------------------- buffers
Cells == {"NUL", "GET", "POST", "CL1", "CLOSE", "CHUNK", "HOST", "END", "B",
          "R", "S400", "S413", "S502", "S503"}

ZeroData == [i \in 1 .. BUFFER_SIZE |-> "NUL"]

buffer_init == [data |-> ZeroData, len |-> 0, pos |-> 0]

\* variant: the read position is reset and the length is left where it was
buffer_clear_keeps_len(buf) == [buf EXCEPT !.pos = 0]

\* variant: the length is reset and the read position is left where it was
buffer_clear_keeps_pos(buf) == [buf EXCEPT !.len = 0]

buffer_clear(buf) == [buf EXCEPT !.len = 0, !.pos = 0]

buffer_is_full(buf) == buf.len >= BUFFER_SIZE

buffer_is_empty(buf) == buf.pos >= buf.len

buffer_readable_bytes(buf) == buf.len - buf.pos

\* variant: the free space is counted from the read position
buffer_writable_bytes_from_pos(buf) == BUFFER_SIZE - buf.pos

buffer_writable_bytes(buf) == BUFFER_SIZE - buf.len

\* memcpy(buf->data + at, src, Len(src))
CopyInto(data, at, src) ==
    [i \in 1 .. BUFFER_SIZE |->
        IF i > at /\ i <= at + Len(src) THEN src[i - at] ELSE data[i]]

\* the cells data[from+1 .. from+n] as a sequence
Slice(data, from, n) == [i \in 1 .. n |-> data[from + i]]

buffer_compact(buf) ==
    IF buf.pos = 0 THEN buf
    ELSE IF buf.pos >= buf.len THEN [buf EXCEPT !.pos = 0, !.len = 0]
    ELSE LET remaining == buf.len - buf.pos
         IN [data |-> CopyInto(buf.data, 0, Slice(buf.data, buf.pos, remaining)),
             pos |-> 0, len |-> remaining]

\* append, as the buffer contract gives it: at most the free space is copied
\* to the tail, and the number of bytes copied is returned
AppendCopied(buf, bytes, n) ==
    [buf |-> [buf EXCEPT !.data = CopyInto(buf.data, buf.len, SubSeq(bytes, 1, n)),
                         !.len = buf.len + n],
     n |-> n]

buffer_append(buf, bytes) ==
    AppendCopied(buf, bytes, Min(Len(bytes), buffer_writable_bytes(buf)))

\* What one read() call returns: n > 0 with the bytes, 0 at end of stream,
\* -1 with errno.  read() is asked for the free space and gives no more.
ReadData(cells) == [n |-> Len(cells), data |-> cells, errno |-> "NONE"]
ReadEof == [n |-> 0, data |-> <<>>, errno |-> "NONE"]
ReadFail(e) == [n |-> -1, data |-> <<>>, errno |-> e]

buffer_read_fd(buf, res) ==
    IF buf.len >= BUFFER_SIZE THEN [buf |-> buf, n |-> -1, errno |-> "ENOBUFS"]
    ELSE IF res.n > 0
    THEN LET n == Min(res.n, BUFFER_SIZE - buf.len)
         IN [buf |-> [buf EXCEPT !.data = CopyInto(buf.data, buf.len,
                                                   SubSeq(res.data, 1, n)),
                                 !.len = buf.len + n],
             n |-> n, errno |-> "NONE"]
    ELSE IF res.n = 0 THEN [buf |-> buf, n |-> 0, errno |-> "NONE"]
    ELSE [buf |-> buf, n |-> -1, errno |-> res.errno]

\* What one write() call returns: the number of bytes taken (at most what
\* was offered), 0, or -1 with errno.
WriteTakes(k) == [n |-> k, errno |-> "NONE"]
WriteFail(e) == [n |-> -1, errno |-> e]

buffer_write_fd(buf, res) ==
    IF buf.pos >= buf.len THEN [buf |-> buf, n |-> 0, errno |-> "NONE"]
    ELSE IF res.n > 0
    THEN LET n == Min(res.n, buf.len - buf.pos)
             p == buf.pos + n
         IN [buf |-> IF p >= buf.len THEN [buf EXCEPT !.pos = 0, !.len = 0]
                     ELSE [buf EXCEPT !.pos = p],
             n |-> n, errno |-> "NONE"]
    ELSE IF res.n = 0 THEN [buf |-> buf, n |-> -1, errno |-> "EAGAIN"]
    ELSE [buf |-> buf, n |-> -1, errno |-> res.errno]

\* ------------------------------------------------------- request framer
\* http_request_t.  ptr tells what client->http_req points at: "NULL", a
\* "LIVE" allocation, or a "FREED" one (free() without clearing the pointer).
NullReq ==
    [ptr |-> "NULL", method |-> "UNKNOWN", version |-> "UNKNOWN",
     headers |-> <<>>, content_length |-> 0, chunked |-> FALSE,
     keep_alive |-> FALSE, is_complete |-> FALSE,
     headers_end_offset |-> 0, total_length |-> 0]

\* memset 0, then the three defaults; applied to the allocation req points at
http_request_init(req) ==
    [NullReq EXCEPT !.ptr = req.ptr, !.content_length = -1,
                    !.version = "HTTP11", !.keep_alive = TRUE]

\* variant: the last blank line of the data is taken for the end of the headers
find_header_end_last(data, len) ==
    IF \E i \in 1 .. len : data[i] = "END"
    THEN CHOOSE i \in 1 .. len : data[i] = "END" /\ \A j \in (i + 1) .. len : data[j] # "END"
    ELSE 0

\* first cell index <= len holding the blank line that ends the headers, or 0
find_header_end(data, len) ==
    IF \E i \in 1 .. len : data[i] = "END"
    THEN CHOOSE i \in 1 .. len : data[i] = "END" /\ \A j \in 1 .. (i - 1) : data[j] # "END"
    ELSE 0

RequestLines == {"GET", "POST", "HEAD", "DELETE"}
HeaderLines == {"CL1", "CLOSE", "CHUNK", "HOST"}

\* parse_header on one header line: -1 when the table is full or the line
\* has no colon, else the line is stored and the recognised headers cached
parse_header(req, line) ==
    IF Len(req.headers) >= MAX_HEADERS THEN [req |-> req, rc |-> -1]
    ELSE IF line \notin HeaderLines THEN [req |-> req, rc |-> -1]
    ELSE LET r1 == [req EXCEPT !.headers = Append(@, line)]
             r2 == CASE line = "CL1"   -> [r1 EXCEPT !.content_length = 1]
                      [] line = "CLOSE" -> [r1 EXCEPT !.keep_alive = FALSE]
                      [] line = "CHUNK" -> [r1 EXCEPT !.chunked = TRUE]
                      [] OTHER          -> r1
         IN [req |-> r2, rc |-> 0]

\* the header loop of http_request_parse over the cells data[i .. last]
RECURSIVE ParseHeaders(_, _, _, _)
ParseHeaders(req, data, i, last) ==
    IF i > last THEN [req |-> req, rc |-> 0]
    ELSE LET h == parse_header(req, data[i])
         IN IF h.rc # 0 THEN h ELSE ParseHeaders(h.req, data, i + 1, last)

\* the last header line is never handed to parse_header: its CRLF is the
\* start of the blank-line match, outside [line_start, header_end)
LastParsedHeader(e) == e - 2

\* http_request_get_header(req, "Connection") compared with a value
ConnectionIs(req, line) ==
    /\ \E i \in 1 .. Len(req.headers) : req.headers[i] \in {"CLOSE"}
    /\ LET i == CHOOSE k \in 1 .. Len(req.headers) :
                   req.headers[k] \in {"CLOSE"}
                   /\ \A j \in 1 .. (k - 1) : req.headers[j] \notin {"CLOSE"}
       IN req.headers[i] = line

\* the methods that carry no body
BodylessMethods == {"GET", "HEAD", "DELETE"}

\* variant: the body counts as received only when more than it has arrived
FrameRequest_strict(req, e, len) ==
    IF req.chunked
    THEN [req |-> [req EXCEPT !.total_length = e, !.is_complete = TRUE], rc |-> 1]
    ELSE IF req.content_length >= 0
    THEN [req |-> [req EXCEPT !.total_length = e + req.content_length,
                              !.is_complete = (len > e + req.content_length)],
          rc |-> IF len > e + req.content_length THEN 1 ELSE 0]
    ELSE IF req.method \in BodylessMethods
    THEN [req |-> [req EXCEPT !.total_length = e, !.is_complete = TRUE], rc |-> 1]
    ELSE [req |-> req, rc |-> -1]

\* the framing decision at the end of http_request_parse, on the request
\* with its headers parsed: e = cells up to and including the blank line
FrameRequest(req, e, len) ==
    IF req.chunked
    THEN [req |-> [req EXCEPT !.total_length = e, !.is_complete = TRUE], rc |-> 1]
    ELSE IF req.content_length >= 0
    THEN [req |-> [req EXCEPT !.total_length = e + req.content_length,
                              !.is_complete = (len >= e + req.content_length)],
          rc |-> IF len >= e + req.content_length THEN 1 ELSE 0]
    ELSE IF req.method \in BodylessMethods
    THEN [req |-> [req EXCEPT !.total_length = e, !.is_complete = TRUE], rc |-> 1]
    ELSE [req |-> req, rc |-> -1]

\* after the header loop (h is its result): the keep-alive default, then
\* the framing decision
ParsedHeaders(h, e, len) ==
    IF h.rc # 0 THEN h
    ELSE FrameRequest([h.req EXCEPT !.keep_alive =
                          IF h.req.version = "HTTP10"
                          THEN ConnectionIs(h.req, "KEEPALIVE")
                          ELSE ~ConnectionIs(h.req, "CLOSE")],
                      e, len)

\* http_request_parse once find_header_end has answered e
ParseUpTo(req, data, len, e) ==
    IF e = 0 THEN [req |-> req, rc |-> 0]
    ELSE IF e = 1 \/ data[1] \notin RequestLines
    THEN [req |-> [req EXCEPT !.headers_end_offset = e], rc |-> -1]
    ELSE ParsedHeaders(
             ParseHeaders([req EXCEPT !.headers_end_offset = e, !.method = data[1],
                                      !.version = "HTTP11"],
                          data, 2, LastParsedHeader(e)),
             e, len)

\* http_request_parse(req, data, len): rc is 1 complete, 0 need, -1 malformed
http_request_parse(req, data, len) ==
    IF req.is_complete THEN [req |-> req, rc |-> 1]
    ELSE ParseUpTo(req, data, len, find_header_end(data, len))

http_request_is_valid(req) ==
    /\ req.method # "UNKNOWN"
    /\ req.version # "UNKNOWN"
    /\ req.content_length <= 100 * 1024 * 1024

\* ------------------------------------------------- the pool and the slots
\* connection_t as calloc leaves it (last_active is written and never
\* read; it is left out)
\* variant: the pool is not zeroed and every slot starts with a count of 1
ZeroConn_uncleared ==
    [fd |-> 0, peer |-> NULL, state |-> "CONNECTING", is_client |-> FALSE,
     read_buf |-> buffer_init, write_buf |-> buffer_init,
     http_req |-> NullReq, requests_handled |-> 1, keep_alive |-> FALSE,
     origin |-> NULL, returned |-> 0]

ZeroConn ==
    [fd |-> 0, peer |-> NULL, state |-> "CONNECTING", is_client |-> FALSE,
     read_buf |-> buffer_init, write_buf |-> buffer_init,
     http_req |-> NullReq, requests_handled |-> 0, keep_alive |-> FALSE,
     origin |-> NULL, returned |-> 0]

\* history kept with each upstream slot: origin is the client slot whose
\* request it was given, GONE once that client has been closed; and with
\* every slot: returned is 0 while the slot has never been handed out, -1
\* while it is in use, and k > 0 when it is on the free list and was the
\* k-th of the slots now on it to be returned
GONE == -2

NoReg == [events |-> {}, token |-> NULL, on |-> FALSE]

\* what the handlers of one event have done so far (history, read by the
\* properties only): starved = callers that called connection_alloc with an
\* empty free list, at_alloc = the slots as they were at the first such
\* call, requester = the client whose dispatch made it, null_alloc = callers
\* that got NULL, rejected = the descriptors those callers held,
\* eof_unsent = the forwarded bytes still waiting in the peer's write buffer
\* when end of stream on a slot closed the pair, pending = the bytes read
\* before this event and not yet passed on, in the read buffer of the slot
\* handle_read was called for, rx = the bytes read() gave in this event,
\* tx = the bytes this event appended to write buffers for delivery,
\* offered = the unwritten bytes of the slot handle_write was called for,
\* write_calls = the write() calls made in this event, requests_error = by
\* how much this event raised config->stats.requests_error, malformed = the
\* client for which http_request_parse returned -1, overflowed = the client
\* whose request was still incomplete when its read buffer had no room left,
\* unreachable = the client whose upstream connection could not be made,
\* body_from / body_to = the client handle_read was called for and its
\* upstream, when the client's chunked request had been dispatched before
EmptyLog == [handler |-> "none", starved |-> {}, at_alloc |-> <<>>,
             requester |-> NULL, null_alloc |-> {}, rejected |-> {},
             accepted |-> {}, closed |-> {}, dispatched |-> FALSE,
             eof_unsent |-> {},
             pending |-> <<>>, rx |-> <<>>, tx |-> <<>>,
             offered |-> {}, write_calls |-> 0,
             requests_error |-> 0, malformed |-> NULL, overflowed |-> NULL,
             unreachable |-> NULL, body_from |-> NULL, body_to |-> NULL,
             earlier_closed |-> {}, recycled |-> {},
             stale |-> NULL, misdelivered |-> {}, response_lost |-> NULL,
             responding |-> NULL, upstream_for |-> {}, full_pair |-> {},
             moves |-> {}, connect_on |-> NULL, so |-> "none",
             handed |-> <<>>, had |-> buffer_init,
             on |-> NULL, ev |-> {}, was |-> "none", ran |-> <<>>,
             unstacked |-> {}, restacked |-> {}]

\* history: connection_alloc is about to hand out a slot that an event of
\* the batch in hand has closed
NoteReuse(w) ==
    IF w.free_list[w.free_count - 1] \in (w.log.earlier_closed \cup w.log.closed)
    THEN [w EXCEPT !.log.recycled = @ \cup {w.free_list[w.free_count - 1]}]
    ELSE w

\* history: caller is about to call connection_alloc
NoteAlloc(w, caller, client) ==
    IF w.free_count # 0 THEN NoteReuse(w)
    ELSE [w EXCEPT !.log.starved = @ \cup {caller},
                   !.log.at_alloc = IF w.log.starved = {} THEN w.connections ELSE @,
                   !.log.requester = IF client # NULL THEN client ELSE @]

\* history: the state of conn is about to be assigned; the assignments to
\* the slots of HTTP clients are kept as pairs <<old state, new state>>
NoteMoveOf(w, conn, is_client, state) ==
    IF w.mode = "HTTP" /\ is_client
    THEN [w EXCEPT !.log.moves = @ \cup {<<w.connections[conn].state, state>>}]
    ELSE w

NoteMove(w, conn, state) == NoteMoveOf(w, conn, w.connections[conn].is_client, state)

\* main.c:177: the calloc'ed proxy_config_t, with the kernel's descriptor
\* table and epoll interest list beside it
CallocConfig ==
    [mode |-> "TCP",
     connections |-> [i \in Slots |-> ZeroConn],
     free_list |-> [i \in Slots |-> 0],
     free_count |-> 0,
     active_connections |-> 0,
     reg |-> [f \in Fds |-> NoReg],
     openfds |-> {},
     log |-> EmptyLog]

connection_pool_init(config) ==
    [config EXCEPT
        !.connections = [i \in Slots |->
            [config.connections[i] EXCEPT !.fd = -1, !.peer = NULL,
                                          !.state = "CLOSED", !.is_client = FALSE,
                                          !.read_buf = buffer_init,
                                          !.write_buf = buffer_init]],
        !.free_list = [i \in Slots |-> MAX_CONNECTIONS - 1 - i],
        !.free_count = MAX_CONNECTIONS,
        !.active_connections = 0]

\* the kernel: lowest unused descriptor, close(), and the epoll interest list
NewFd(w) == CHOOSE f \in Fds : f \notin w.openfds /\ \A g \in Fds : g < f => g \in w.openfds

OpenFd(w, fd) == [w EXCEPT !.openfds = @ \cup {fd}]

CloseFd(w, fd) ==
    IF fd \in w.openfds
    THEN [w EXCEPT !.openfds = @ \ {fd}, !.reg[fd] = NoReg]
    ELSE w

epoll_add(w, fd, events, conn) ==
    IF fd \in w.openfds /\ ~w.reg[fd].on
    THEN [w EXCEPT !.reg[fd] = [events |-> events, token |-> conn, on |-> TRUE]]
    ELSE w

epoll_mod(w, fd, events, conn) ==
    IF fd \in w.openfds /\ w.reg[fd].on
    THEN [w EXCEPT !.reg[fd] = [events |-> events, token |-> conn, on |-> TRUE]]
    ELSE w

epoll_del(w, fd) ==
    IF fd \in w.openfds /\ w.reg[fd].on
    THEN [w EXCEPT !.reg[fd] = NoReg]
    ELSE w

\* the greatest of a set of numbers
Greatest(S) == CHOOSE m \in S : \A n \in S : n <= m

\* the return numbers of the slots on the free list (0 with them)
FreeRanks(w) ==
    {w.connections[s].returned : s \in {t \in Slots : w.connections[t].state = "CLOSED"}}
        \cup {0}

\* conn, just handed out, was the right slot for a stack to hand out: slot 0
\* of a pool never used, or the slot returned last of those on the free list
Stacked(w, conn) ==
    IF \A s \in Slots : w.connections[s].returned = 0 THEN conn = 0
    ELSE IF Greatest(FreeRanks(w)) > 0
    THEN w.connections[conn].returned = Greatest(FreeRanks(w))
    ELSE TRUE

\* history: connection_alloc has answered a
NoteTaken(a) ==
    IF a.conn = NULL THEN a
    ELSE [w |-> [a.w EXCEPT
                    !.connections[a.conn].returned = -1,
                    !.log.unstacked = IF Stacked(a.w, a.conn) THEN @ ELSE @ \cup {a.conn},
                    !.log.restacked = IF Cardinality(FreeRanks(a.w) \ {0, -1}) >= 2
                                      THEN @ \cup {a.conn} ELSE @],
          conn |-> a.conn]

\* history: conn is being returned to the free list
NoteReturned(w, conn) ==
    [w EXCEPT !.connections[conn].returned = 1 + Greatest(FreeRanks(w))]

\* variant: the slot at the bottom of the free list is handed out
connection_alloc_bottom(w) ==
    IF w.free_count = 0 THEN [w |-> w, conn |-> NULL]
    ELSE LET fc == w.free_count - 1
             index == w.free_list[0]
         IN [w |-> [w EXCEPT !.free_count = fc,
                             !.free_list[0] = w.free_list[fc],
                             !.connections[index].state = "CLOSED",
                             !.active_connections = @ + 1],
             conn |-> index]

\* variant: on exhaustion the slot at the bottom of the stack is reused
connection_alloc_evicting(w) ==
    LET fc == IF w.free_count = 0 THEN 0 ELSE w.free_count - 1
        index == w.free_list[fc]
    IN [w |-> [w EXCEPT !.free_count = fc,
                        !.connections[index].state = "CLOSED",
                        !.active_connections = @ + 1],
        conn |-> index]

connection_alloc(w) ==
    IF w.free_count = 0 THEN [w |-> w, conn |-> NULL]
    ELSE LET fc == w.free_count - 1
             index == w.free_list[fc]
         IN [w |-> [w EXCEPT !.free_count = fc,
                             !.connections[index].state = "CLOSED",
                             !.active_connections = @ + 1],
             conn |-> index]

\* history: conn is being freed; the upstreams it had dispatched to lose it
NoteFreed(w, conn) ==
    [w EXCEPT !.connections =
        [s \in Slots |->
            IF s = conn THEN [w.connections[s] EXCEPT !.origin = NULL]
            ELSE IF w.connections[s].origin = conn
            THEN [w.connections[s] EXCEPT !.origin = GONE]
            ELSE w.connections[s]]]

connection_free(w, conn) ==
    IF conn = NULL THEN w
    ELSE LET w1 == [NoteReturned(NoteFreed(NoteMove(w, conn, "CLOSED"), conn), conn)
                        EXCEPT !.connections[conn].state = "CLOSED",
                             !.connections[conn].fd = -1,
                             !.connections[conn].peer = NULL,
                             !.connections[conn].read_buf = buffer_clear(@),
                             !.connections[conn].write_buf = buffer_clear(@)]
         IN IF w1.free_count >= MAX_CONNECTIONS THEN w1
            ELSE [w1 EXCEPT !.free_list[w1.free_count] = conn,
                            !.free_count = @ + 1,
                            !.active_connections = @ - 1]

connection_init(w, conn, fd, is_client, state) ==
    [NoteMoveOf(w, conn, is_client, state) EXCEPT !.connections[conn].fd = fd,
              !.connections[conn].is_client = is_client,
              !.connections[conn].state = state,
              !.connections[conn].peer = NULL,
              !.connections[conn].read_buf = buffer_clear(@),
              !.connections[conn].write_buf = buffer_clear(@)]

connection_pair(w, client, backend) ==
    [w EXCEPT !.connections[client].peer = backend,
              !.connections[backend].peer = client]

connection_unpair(w, conn) ==
    IF conn = NULL THEN w
    ELSE IF w.connections[conn].peer # NULL
    THEN LET p == w.connections[conn].peer
             w1 == [w EXCEPT !.connections[p].peer = NULL]
         IN [w1 EXCEPT !.connections[conn].peer = NULL]
    ELSE w

\* variant: no early return for a slot that is already CLOSED
connection_close_unguarded(w, conn) ==
    IF conn = NULL THEN w
    ELSE LET fd == w.connections[conn].fd
             w1 == IF fd >= 0 THEN CloseFd(epoll_del(w, fd), fd) ELSE w
             w2 == connection_unpair(w1, conn)
             w3 == connection_free(w2, conn)
         IN [w3 EXCEPT !.log.closed = @ \cup {conn}]

connection_close(w, conn) ==
    IF conn = NULL \/ w.connections[conn].state = "CLOSED" THEN w
    ELSE LET fd == w.connections[conn].fd
             w1 == IF fd >= 0 THEN CloseFd(epoll_del(w, fd), fd) ELSE w
             w2 == connection_unpair(w1, conn)
             w3 == connection_free(w2, conn)
         IN [w3 EXCEPT !.log.closed = @ \cup {conn}]

\* the second half of connection_close_pair: peer was saved before the close
ClosePeer(w, peer) == IF peer # NULL THEN connection_close(w, peer) ELSE w

connection_close_pair(w, conn) ==
    IF conn = NULL THEN w
    ELSE ClosePeer(connection_close(w, conn), w.connections[conn].peer)

connection_set_state(w, conn, state) ==
    IF conn = NULL THEN w ELSE [w EXCEPT !.connections[conn].state = state]

connection_is_valid(w, conn) ==
    /\ conn # NULL
    /\ w.connections[conn].state # "CLOSED"
    /\ w.connections[conn].fd >= 0

connection_can_read(w, conn) ==
    /\ connection_is_valid(w, conn)
    /\ w.connections[conn].state \in {"CONNECTED", "READING"}
    /\ w.connections[conn].peer # NULL
    /\ ~buffer_is_full(w.connections[w.connections[conn].peer].write_buf)

connection_can_write(w, conn) ==
    /\ connection_is_valid(w, conn)
    /\ w.connections[conn].state \in {"CONNECTED", "WRITING"}
    /\ ~buffer_is_empty(w.connections[conn].write_buf)

connection_wants_read(w, conn) == connection_can_read(w, conn)

connection_wants_write(w, conn) ==
    /\ connection_is_valid(w, conn)
    /\ \/ w.connections[conn].state = "CONNECTING"
       \/ ~buffer_is_empty(w.connections[conn].write_buf)

\* ------------------------------------------------------------ the engine
\* the successful return of proxy_init_http
proxy_init_http(config) ==
    connection_pool_init([config EXCEPT !.mode = "HTTP"])

proxy_init(config) ==
    proxy_init_http([config EXCEPT !.mode = "TCP"])

MinimalEvents == {"IN"}

\* the events update_epoll_events computes for conn
WantedEvents(w, conn) ==
    (IF connection_wants_read(w, conn) THEN {"IN"} ELSE {})
    \cup (IF connection_wants_write(w, conn) THEN {"OUT"} ELSE {})

OrMinimal(events) == IF events = {} THEN MinimalEvents ELSE events

\* variant: a slot that wants no event is taken off the interest list
update_epoll_events_dropping(w, conn) ==
    IF ~connection_is_valid(w, conn) THEN w
    ELSE IF WantedEvents(w, conn) = {} THEN epoll_del(w, w.connections[conn].fd)
    ELSE epoll_mod(w, w.connections[conn].fd, WantedEvents(w, conn), conn)

update_epoll_events(w, conn) ==
    IF ~connection_is_valid(w, conn) THEN w
    ELSE epoll_mod(w, w.connections[conn].fd, OrMinimal(WantedEvents(w, conn)), conn)

\* the tail of handle_read_tcp and handle_write: update_epoll_events(conn)
\* has run; now, if conn has a peer, update_epoll_events(conn->peer)
UpdatePeer(w, conn) ==
    IF w.connections[conn].peer # NULL
    THEN update_epoll_events(w, w.connections[conn].peer)
    ELSE w

UpdateBoth(w, conn) == UpdatePeer(update_epoll_events(w, conn), conn)

\* history: backend is the upstream the request of client is handed to
NoteOrigin(w, backend, client) ==
    [w EXCEPT !.connections[backend].origin = client,
              !.log.upstream_for = @ \cup {client}]

\* history: bytes read from the upstream src are about to be appended to the
\* write buffer of dst
NoteDelivery(w, src, dst) ==
    IF ~w.connections[src].is_client /\ w.connections[src].origin # dst
    THEN [w EXCEPT !.log.misdelivered = @ \cup {dst}]
    ELSE w

\* forward_data: the source buffer after to_copy bytes have left it
SourceAfter(sb, to_copy) ==
    IF sb.pos + to_copy >= sb.len THEN buffer_clear([sb EXCEPT !.pos = sb.pos + to_copy])
    ELSE [sb EXCEPT !.pos = sb.pos + to_copy]

CompactIfTight(db) ==
    IF db.pos > 0 /\ buffer_writable_bytes(db) < COMPACT_THRESHOLD
    THEN buffer_compact(db) ELSE db

\* forward_data: the destination buffer after to_copy bytes of sb arrived
DestAfter(db, sb, to_copy) ==
    CompactIfTight([db EXCEPT !.data = CopyInto(db.data, db.len,
                                                Slice(sb.data, sb.pos, to_copy)),
                              !.len = db.len + to_copy])

ForwardBytes(w, src, dst, to_copy) ==
    IF to_copy = 0 THEN [w |-> w, ret |-> 0]
    ELSE [w |-> [NoteDelivery(w, src, dst) EXCEPT
                    !.connections[dst].write_buf =
                        DestAfter(@, w.connections[src].read_buf, to_copy),
                    !.connections[src].read_buf = SourceAfter(@, to_copy),
                    !.log.tx = @ \o Slice(w.connections[src].read_buf.data,
                                          w.connections[src].read_buf.pos, to_copy)],
          ret |-> to_copy]

forward_data(w, src, dst) ==
    IF src = NULL \/ dst = NULL THEN [w |-> w, ret |-> -1]
    ELSE ForwardBytes(w, src, dst,
                      Min(buffer_readable_bytes(w.connections[src].read_buf),
                          buffer_writable_bytes(w.connections[dst].write_buf)))

\* the text snprintf builds (well under sizeof(response)): one cell
ErrorResponse(status_code) ==
    CASE status_code = 400 -> <<"S400">>
      [] status_code = 413 -> <<"S413">>
      [] status_code = 502 -> <<"S502">>
      [] OTHER             -> <<"S503">>

send_http_error(w, client, status_code) ==
    [w EXCEPT !.connections[client].write_buf =
                  [data |-> CopyInto(@.data, 0,
                                SubSeq(ErrorResponse(status_code), 1,
                                       Min(Len(ErrorResponse(status_code)), BUFFER_SIZE))),
                   len |-> Min(Len(ErrorResponse(status_code)), BUFFER_SIZE),
                   pos |-> 0],
              !.connections[client].keep_alive = FALSE]

\* history: handle_http_request has handed the request of client to backend;
\* had is the client's read buffer as it was before the copy
NoteHanded(w, client, backend, had) ==
    [w EXCEPT !.log.handed = <<client, backend>>, !.log.had = had]

\* handle_http_request from epoll_add on: the request has been copied
DispatchRegister(w, client, backend, backend_fd, be) ==
    IF be = "add_fail" THEN connection_close_pair(w, client)
    ELSE update_epoll_events(
             [epoll_add(NoteMove(w, client, "WRITING_RESPONSE"), backend_fd, {"OUT"}, backend)
                 EXCEPT !.connections[client].state = "WRITING_RESPONSE"],
             client)

\* handle_http_request from the size check on: backend is initialised and paired
DispatchCopy(w, client, backend, backend_fd, be) ==
    IF w.connections[client].http_req.total_length > BUFFER_SIZE
    THEN send_http_error(connection_close(w, backend), client, 413)
    ELSE DispatchRegister(
             [NoteHanded(w, client, backend, w.connections[client].read_buf) EXCEPT
                 !.connections[backend].write_buf =
                     [data |-> CopyInto(@.data, 0,
                                   Slice(w.connections[client].read_buf.data, 0,
                                         w.connections[client].http_req.total_length)),
                      len |-> w.connections[client].http_req.total_length,
                      pos |-> 0],
                 !.connections[client].read_buf = buffer_clear(@),
                 !.connections[client].keep_alive =
                     w.connections[client].http_req.keep_alive,
                 !.log.tx = @ \o Slice(w.connections[client].read_buf.data, 0,
                                       w.connections[client].http_req.total_length)],
             client, backend, backend_fd, be)

\* handle_http_request once connection_alloc has answered a
DispatchAlloc(a, client, backend_fd, be) ==
    IF a.conn = NULL
    THEN send_http_error(
             [CloseFd(a.w, backend_fd) EXCEPT !.log.null_alloc = @ \cup {"dispatch"},
                                              !.log.rejected = @ \cup {backend_fd}],
             client, 503)
    ELSE DispatchCopy(
             NoteOrigin(
                 connection_pair(
                     connection_init(a.w, a.conn, backend_fd, FALSE, "CONNECTING"),
                     client, a.conn),
                 a.conn, client),
             client, a.conn, backend_fd, be)

\* be: what create_backend_connection and the later epoll_add do:
\* "fail" (no socket), "add_fail" (socket, epoll_add fails), "ok"
handle_http_request(w, client, be) ==
    IF be = "fail"
    THEN send_http_error([w EXCEPT !.log.dispatched = TRUE, !.log.unreachable = client],
                         client, 502)
    ELSE DispatchAlloc(
             NoteTaken(connection_alloc(
                 NoteAlloc(OpenFd([w EXCEPT !.log.dispatched = TRUE], NewFd(w)),
                           "dispatch", client))),
             client, NewFd(w), be)

\* script: the results of the read() calls of this drain, in order; when
\* it runs out the socket is drained and read() gives EAGAIN
NextRead(script) == IF script = <<>> THEN ReadFail("EAGAIN") ELSE Head(script)
NextWrite(script) == IF script = <<>> THEN WriteFail("EAGAIN") ELSE Head(script)
Rest(script) == IF script = <<>> THEN <<>> ELSE Tail(script)

RECURSIVE handle_read_http_client(_, _, _, _)

\* the request is complete (parse_result == 1) and the state is set
HttpRequestComplete(w, client, be) ==
    IF ~http_request_is_valid(w.connections[client].http_req)
    THEN send_http_error([w EXCEPT !.log.requests_error = @ + 1], client, 400)
    ELSE handle_http_request(w, client, be)

\* variant: a malformed request is passed on like a complete one
HttpClientParsed_lenient(w, client, script, be, p) ==
    IF p.rc # 0
    THEN HttpRequestComplete([w EXCEPT !.connections[client].http_req = p.req,
                                       !.connections[client].state = "REQUEST_COMPLETE",
                                       !.log.malformed = IF p.rc = -1 THEN client ELSE @],
                             client, be)
    ELSE handle_read_http_client([w EXCEPT !.connections[client].http_req = p.req],
                                 client, Rest(script), be)

\* variant: a complete request does not change the client's state
HttpClientParsed_unmarked(w, client, script, be, p) ==
    IF p.rc = 1
    THEN HttpRequestComplete([w EXCEPT !.connections[client].http_req = p.req],
                             client, be)
    ELSE IF p.rc = -1
    THEN send_http_error([w EXCEPT !.connections[client].http_req = p.req,
                                   !.log.requests_error = @ + 1,
                                   !.log.malformed = client],
                         client, 400)
    ELSE handle_read_http_client([w EXCEPT !.connections[client].http_req = p.req],
                                 client, Rest(script), be)

\* after a read of n > 0 bytes: p is what http_request_parse answered
HttpClientParsed(w, client, script, be, p) ==
    IF p.rc = 1
    THEN HttpRequestComplete([NoteMove(w, client, "REQUEST_COMPLETE")
                                 EXCEPT !.connections[client].http_req = p.req,
                                       !.connections[client].state = "REQUEST_COMPLETE"],
                             client, be)
    ELSE IF p.rc = -1
    THEN send_http_error([w EXCEPT !.connections[client].http_req = p.req,
                                   !.log.requests_error = @ + 1,
                                   !.log.malformed = client],
                         client, 400)
    ELSE handle_read_http_client([w EXCEPT !.connections[client].http_req = p.req],
                                 client, Rest(script), be)

\* one turn of the read loop: r is what buffer_read_fd answered
HttpClientRead(w, client, script, be, r) ==
    IF r.n > 0
    THEN HttpClientParsed([w EXCEPT !.connections[client].read_buf = r.buf,
                                    !.log.rx = @ \o Slice(r.buf.data, r.buf.len - r.n, r.n)],
                          client, script, be,
                          http_request_parse(w.connections[client].http_req,
                                             r.buf.data, r.buf.len))
    ELSE IF r.n = 0
    THEN connection_close(w, client)
    ELSE IF r.errno = "EAGAIN"
    THEN IF w.connections[client].read_buf.len > MAX_REQUEST_SIZE
         THEN send_http_error([w EXCEPT !.log.requests_error = @ + 1], client, 413)
         ELSE w
    ELSE connection_close(
             IF r.errno = "ENOBUFS" /\ ~w.connections[client].http_req.is_complete
             THEN [w EXCEPT !.log.overflowed = client] ELSE w,
             client)

handle_read_http_client(w, client, script, be) ==
    HttpClientRead(w, client, script, be,
                   buffer_read_fd(w.connections[client].read_buf, NextRead(script)))

\* the client that waits for the upstream conn to connect, if there is one
Waiting(w, conn) ==
    IF /\ w.connections[conn].state = "CONNECTING"
       /\ ~w.connections[conn].is_client
       /\ w.connections[conn].peer # NULL
       /\ w.connections[w.connections[conn].peer].state # "CLOSED"
       /\ w.connections[w.connections[conn].peer].is_client
       /\ w.connections[w.connections[conn].peer].peer = conn
    THEN w.connections[conn].peer
    ELSE NULL

\* history: the connect of the upstream conn has failed
NoteConnectFailed(w, conn) == [w EXCEPT !.log.unreachable = Waiting(w, conn)]

handle_error(w, conn) ==
    IF w.mode = "HTTP" /\ w.connections[conn].is_client
    THEN connection_close(w, conn)
    ELSE connection_close_pair(NoteConnectFailed(w, conn), conn)

RECURSIVE ReadLoopTcp(_, _, _)

\* after a read of n > 0 bytes: f is what forward_data answered
TcpForwarded(f, conn, script) ==
    IF f.ret = -1 THEN [w |-> f.w, exit |-> "error"]
    ELSE ReadLoopTcp(f.w, conn, Rest(script))

\* the cells of a write buffer not yet written to the socket
Unsent(buf) == {buf.data[i] : i \in (buf.pos + 1) .. buf.len}

\* the cells send_http_error writes
Synthesized == {"S400", "S413", "S502", "S503"}

\* history: read() on conn returned 0 and the pair is about to be closed
NoteEof(w, conn) ==
    IF w.connections[conn].peer = NULL THEN w
    ELSE [w EXCEPT !.log.eof_unsent =
              Unsent(w.connections[w.connections[conn].peer].write_buf) \ Synthesized]

\* history: read() on the upstream conn returned 0 while the client that
\* dispatched to it still holds response bytes no write() has taken
NoteLost(w, conn) ==
    IF /\ ~w.connections[conn].is_client
       /\ w.connections[conn].peer # NULL
       /\ w.connections[conn].peer = w.connections[conn].origin
       /\ "R" \in Unsent(w.connections[w.connections[conn].peer].write_buf)
    THEN [w EXCEPT !.log.response_lost = w.connections[conn].peer]
    ELSE w

\* history: buffer_read_fd found the read buffer of conn full while the write
\* buffer of its peer is full as well
NoteFull(w, conn, r) ==
    IF /\ r.errno = "ENOBUFS"
       /\ w.connections[conn].peer # NULL
       /\ buffer_is_full(w.connections[w.connections[conn].peer].write_buf)
    THEN [w EXCEPT !.log.full_pair = {conn, w.connections[conn].peer}]
    ELSE w

\* one turn of the read loop: r is what buffer_read_fd answered
TcpRead(w, conn, script, r) ==
    IF r.n > 0
    THEN TcpForwarded(forward_data([w EXCEPT !.connections[conn].read_buf = r.buf,
                                             !.log.rx = @ \o Slice(r.buf.data,
                                                                   r.buf.len - r.n, r.n)],
                                   conn, w.connections[conn].peer),
                      conn, script)
    ELSE IF r.n = 0
    THEN [w |-> connection_close_pair(NoteLost(NoteEof(w, conn), conn), conn), exit |-> "return"]
    ELSE IF r.errno = "EAGAIN" THEN [w |-> w, exit |-> "break"]
    ELSE [w |-> connection_close_pair(NoteFull(w, conn, r), conn), exit |-> "return"]

\* the while loop of handle_read_tcp; exit tells how it was left
ReadLoopTcp(w, conn, script) ==
    TcpRead(w, conn, script,
            buffer_read_fd(w.connections[conn].read_buf, NextRead(script)))

\* handle_read_tcp after its loop
AfterReadLoop(l, conn) ==
    IF l.exit = "error" THEN handle_error(l.w, conn)
    ELSE IF l.exit = "return" THEN l.w
    ELSE UpdateBoth(l.w, conn)

handle_read_tcp(w, conn, script) ==
    IF ~connection_can_read(w, conn) THEN w
    ELSE AfterReadLoop(ReadLoopTcp(w, conn, script), conn)

\* the unread cells of a read buffer, in order
Unread(buf) == Slice(buf.data, buf.pos, buffer_readable_bytes(buf))

\* conn is a client whose chunked request has been dispatched to the
\* upstream it is still paired with
SendingChunkedBody(w, conn) ==
    /\ w.connections[conn].is_client
    /\ w.connections[conn].http_req.is_complete
    /\ w.connections[conn].http_req.chunked
    /\ w.connections[conn].peer # NULL
    /\ w.connections[w.connections[conn].peer].state # "CLOSED"
    /\ w.connections[w.connections[conn].peer].peer = conn

\* history: handle_read starts on conn
NotePending(w, conn) ==
    [w EXCEPT !.log.pending = Unread(w.connections[conn].read_buf),
              !.log.body_from = IF SendingChunkedBody(w, conn) THEN conn ELSE NULL,
              !.log.body_to = IF SendingChunkedBody(w, conn)
                              THEN w.connections[conn].peer ELSE NULL,
              !.log.responding = IF /\ w.connections[conn].is_client
                                    /\ w.connections[conn].state = "WRITING_RESPONSE"
                                 THEN conn ELSE NULL]

handle_read(w, conn, script, be) ==
    IF ~connection_is_valid(w, conn) THEN w
    ELSE IF w.mode = "HTTP" /\ w.connections[conn].is_client
    THEN handle_read_http_client(NotePending(w, conn), conn, script, be)
    ELSE handle_read_tcp(NotePending(w, conn), conn, script)

RECURSIVE WriteLoop(_, _, _)

\* one turn of the write loop: r is what buffer_write_fd answered
WriteOnce(w, conn, script, r) ==
    IF r.n > 0
    THEN IF buffer_is_empty(r.buf)
         THEN [w |-> [w EXCEPT !.connections[conn].write_buf = r.buf], exit |-> "break"]
         ELSE WriteLoop([w EXCEPT !.connections[conn].write_buf = r.buf],
                        conn, Rest(script))
    ELSE IF r.n = 0 THEN [w |-> w, exit |-> "break"]
    ELSE IF r.errno = "EAGAIN" THEN [w |-> w, exit |-> "break"]
    ELSE [w |-> IF w.mode = "HTTP" /\ w.connections[conn].is_client
                THEN connection_close(w, conn)
                ELSE connection_close_pair(w, conn),
          exit |-> "return"]

\* script: the results of the write() calls of this drain, in order
WriteLoop(w, conn, script) ==
    WriteOnce([w EXCEPT !.log.write_calls = @ + 1], conn, script,
              buffer_write_fd(w.connections[conn].write_buf, NextWrite(script)))

\* handle_write: the keep-alive reset has been done
Recycled(w, conn) ==
    IF w.connections[conn].requests_handled >= MAX_REQUESTS_PER_CONN
    THEN connection_close(w, conn)
    ELSE UpdateBoth(w, conn)

\* handle_write after its loop, for an HTTP client whose write buffer is empty
ResponseSent(w, conn) ==
    IF ~w.connections[conn].keep_alive THEN connection_close(w, conn)
    ELSE Recycled([NoteMove(w, conn, "READING_REQUEST")
                      EXCEPT !.connections[conn].read_buf = buffer_clear(@),
                            !.connections[conn].write_buf = buffer_clear(@),
                            !.connections[conn].http_req = http_request_init(@),
                            !.connections[conn].state = "READING_REQUEST",
                            !.connections[conn].requests_handled = @ + 1],
                  conn)

\* handle_write after its loop
AfterWriteLoop(l, conn) ==
    IF l.exit = "return" THEN l.w
    ELSE IF /\ l.w.mode = "HTTP" /\ l.w.connections[conn].is_client
            /\ buffer_is_empty(l.w.connections[conn].write_buf)
    THEN ResponseSent(l.w, conn)
    ELSE UpdateBoth(l.w, conn)

\* history: handle_write starts on conn
NoteWritable(w, conn) ==
    [w EXCEPT !.log.offered = Unsent(w.connections[conn].write_buf)]

handle_write(w, conn, script) ==
    IF ~connection_can_write(w, conn) THEN NoteWritable(w, conn)
    ELSE AfterWriteLoop(WriteLoop(NoteWritable(w, conn), conn, script), conn)

\* so: what getsockopt(SO_ERROR) reports: "ok", "err" (a pending error) or
\* "fail" (getsockopt itself fails)
ConnectChecked(w, conn, so) ==
    IF so # "ok"
    THEN IF /\ w.mode = "HTTP" /\ w.connections[conn].peer # NULL
            /\ w.connections[w.connections[conn].peer].is_client
         THEN send_http_error(NoteConnectFailed(w, conn), w.connections[conn].peer, 502)
         ELSE connection_close_pair(w, conn)
    ELSE update_epoll_events(connection_set_state(w, conn, "CONNECTED"), conn)

\* history: handle_connect is called for conn and getsockopt answers so
NoteConnect(w, conn, so) == [w EXCEPT !.log.connect_on = conn, !.log.so = so]

handle_connect(w, conn, so) == ConnectChecked(NoteConnect(w, conn, so), conn, so)

\* handle_accept from epoll_add on
AcceptRegister(w, client, client_fd, how) ==
    IF how = "add_fail"
    THEN connection_close(
             IF w.connections[client].http_req.ptr # "NULL"
             THEN [w EXCEPT !.connections[client].http_req.ptr = "FREED"]
             ELSE w,
             client)
    ELSE [epoll_add(w, client_fd, {"IN"}, client) EXCEPT !.log.accepted = @ \cup {client}]

\* handle_accept after connection_init: the HTTP request state
AcceptRequestState(w, client, client_fd, how) ==
    IF w.mode # "HTTP" THEN AcceptRegister(w, client, client_fd, how)
    ELSE IF how = "calloc_fail"
    THEN CloseFd(connection_close([w EXCEPT !.connections[client].http_req = NullReq],
                                  client),
                 client_fd)
    ELSE AcceptRegister(
             [NoteMove(w, client, "READING_REQUEST")
                 EXCEPT !.connections[client].http_req =
                           http_request_init([NullReq EXCEPT !.ptr = "LIVE"]),
                       !.connections[client].state = "READING_REQUEST"],
             client, client_fd, how)

\* handle_accept once connection_alloc has answered a
AcceptAlloc(a, client_fd, how) ==
    IF a.conn = NULL
    THEN [CloseFd(a.w, client_fd) EXCEPT !.log.null_alloc = @ \cup {"accept"},
                                         !.log.rejected = @ \cup {client_fd}]
    ELSE AcceptRequestState(connection_init(a.w, a.conn, client_fd, TRUE, "CONNECTED"),
                            a.conn, client_fd, how)

\* one turn of the accept loop: accept() has returned client_fd (open in w)
AcceptOne(w, client_fd, how) ==
    IF how = "opt_fail" THEN CloseFd(w, client_fd)
    ELSE AcceptAlloc(NoteTaken(connection_alloc(NoteAlloc(w, "accept", NULL))),
                     client_fd, how)

\* accepts: what happens to each connection accept() returns in this drain:
\* "ok", "opt_fail" (set_nonblocking / set_socket_options fails),
\* "calloc_fail", "add_fail" (epoll_add fails)
RECURSIVE handle_accept(_, _)
handle_accept(w, accepts) ==
    IF accepts = <<>> THEN w
    ELSE handle_accept(AcceptOne(OpenFd(w, NewFd(w)), NewFd(w), Head(accepts)),
                       Tail(accepts))

RECURSIVE CleanupFrom(_, _)
CleanupFrom(w, i) ==
    IF i >= MAX_CONNECTIONS THEN w
    ELSE IF w.connections[i].state # "CLOSED"
    THEN CleanupFrom(connection_close([w EXCEPT !.connections[i].http_req = NullReq], i),
                     i + 1)
    ELSE CleanupFrom(w, i + 1)

\* variant: the scan for slots to close starts one slot late
proxy_cleanup_from_second(w) == CleanupFrom(w, 1)

proxy_cleanup(w) == CleanupFrom(w, 0)

\* --------------------------------------------------------- the event loop
VARIABLES
    initialiser,         \* which initialiser main called: "proxy_init" or "proxy_init_http"
    mode,                \* config->mode
    connections,         \* config->connections
    free_list,           \* config->free_list
    free_count,          \* config->free_count
    active_connections,  \* config->stats.active_connections
    reg,                 \* the epoll interest list: descriptor -> events and token
    openfds,             \* the open socket descriptors
    events,              \* the events of the current epoll_wait batch not yet handled
    running,             \* the shutdown flag
    phase,               \* "run" at the while test or inside the for loop of
                         \* proxy_run, "wait" inside epoll_wait, "done" after
                         \* proxy_cleanup
    steps,               \* events and system call results supplied so far
    log,                 \* history of the last event handled
    framer,              \* the request framer run on its own: input and results
    unit,                \* one buffer exercised on its own: the last call on it
    max_events           \* most events epoll_wait hands back in one batch

vars == <<initialiser, mode, connections, free_list, free_count,
          active_connections, reg, openfds, events, running, phase, steps, log,
          framer, unit, max_events>>

World ==
    [mode |-> mode, connections |-> connections, free_list |-> free_list,
     free_count |-> free_count, active_connections |-> active_connections,
     reg |-> reg, openfds |-> openfds, log |-> log]

Commit(w) ==
    /\ mode' = w.mode
    /\ connections' = w.connections
    /\ free_list' = w.free_list
    /\ free_count' = w.free_count
    /\ active_connections' = w.active_connections
    /\ reg' = w.reg
    /\ openfds' = w.openfds
    /\ log' = w.log

\* the history of one event starts empty, but for what the earlier events of
\* the same batch have closed and handed out again
Begin(handler) ==
    [World EXCEPT !.log =
        IF phase = "run" /\ events # <<>>
        THEN [EmptyLog EXCEPT !.handler = handler,
                              !.earlier_closed = log.earlier_closed \cup log.closed,
                              !.recycled = log.recycled]
        ELSE [EmptyLog EXCEPT !.handler = handler]]

\* history: the event in hand was recorded for the slot's previous occupant
NoteStale(w, conn) ==
    IF conn \in w.log.recycled /\ w.connections[conn].state # "CLOSED"
    THEN [w EXCEPT !.log.stale = conn]
    ELSE w

\* proxy_run takes conn from ev->data.ptr and calls a handler on it
BeginOn(handler, conn) == NoteStale(Begin(handler), conn)

\* history: proxy_run takes up the event ev recorded for conn
NoteEvent(w, conn, ev) ==
    [w EXCEPT !.log.on = conn, !.log.ev = ev, !.log.was = w.connections[conn].state]

EventOn(handler, conn, ev) == NoteEvent(BeginOn(handler, conn), conn, ev)

\* history: proxy_run is about to call the handler name
Ran(w, name) == [w EXCEPT !.log.ran = Append(@, name)]

\* sequences over S of length 0 .. n
RECURSIVE SeqsUpTo(_, _)
SeqsUpTo(S, n) ==
    IF n = 0 THEN {<<>>}
    ELSE LET shorter == SeqsUpTo(S, n - 1)
         IN shorter \cup {Append(q, x) : q \in {t \in shorter : Len(t) = n - 1}, x \in S}

\* data a client may have sent in one piece: a whole GET request, a POST
\* with no framing header, the first and the second half of a chunked POST,
\* one body byte; and data the backend may have sent: one byte, a buffer full
ClientChunks == {<<"GET", "END">>, <<"POST", "END">>, <<"POST", "CHUNK">>,
                 <<"HOST", "END">>, <<"B">>}
UpstreamChunks == {<<"R">>, [i \in 1 .. BUFFER_SIZE |-> "R"]}

\* a drain sees some chunks and then either EAGAIN (the script ends), end of
\* stream or an error
ReadScripts(chunks) ==
    LET data == {ReadData(c) : c \in chunks}
        last == {ReadEof, ReadFail("ECONNRESET")}
    IN {q \in SeqsUpTo(data \cup last, MaxReads) :
            \A i \in 1 .. (Len(q) - 1) : q[i] \in data}

ClientReadScripts == ReadScripts(ClientChunks)
UpstreamReadScripts == ReadScripts(UpstreamChunks)

WriteScripts ==
    LET some == {WriteTakes(1), WriteTakes(BUFFER_SIZE)}
        last == {WriteFail("EPIPE")}
    IN {q \in SeqsUpTo(some \cup last, MaxWrites) :
            \A i \in 1 .. (Len(q) - 1) : q[i] \in some}

\* the scripts that can make a difference to a drain on conn: none when the
\* handler returns before its first read() or write()
ReadsFor(w, conn) ==
    IF ~connection_is_valid(w, conn) THEN {<<>>}
    ELSE IF w.mode = "HTTP" /\ w.connections[conn].is_client THEN ClientReadScripts
    ELSE IF connection_can_read(w, conn)
    THEN (IF w.connections[conn].is_client THEN ClientReadScripts ELSE UpstreamReadScripts)
    ELSE {<<>>}

WritesFor(w, conn) ==
    IF connection_can_write(w, conn) THEN WriteScripts ELSE {<<>>}

\* the outcomes of the upstream connect that can make a difference: only
\* "ok" when the drain does not reach handle_http_request
BackendsFor(w) ==
    IF w.log.dispatched THEN {"ok", "fail", "add_fail"} ELSE {"ok"}

AcceptScripts == SeqsUpTo({"ok", "opt_fail", "calloc_fail", "add_fail"}, MaxAccepts) \ {<<>>}

\* the events epoll can report now: the listener's (null token), and for
\* each registered descriptor its token with some of the events it is
\* registered for, or with an error/hangup edge on top of all of them
ListenerEvent == [token |-> NULL, ev |-> {"IN"}]

ReadyEvents ==
    {ListenerEvent} \cup
    {[token |-> reg[f].token, ev |-> e] :
        f \in {g \in Fds : reg[g].on},
        e \in {{"ERR", "IN"}, {"ERR", "OUT"}, {"ERR", "IN", "OUT"},
                {"IN"}, {"OUT"}, {"IN", "OUT"}}}

Reportable(x) ==
    \/ x = ListenerEvent
    \/ \E f \in Fds : /\ reg[f].on /\ reg[f].token = x.token
                      /\ IF "ERR" \in x.ev THEN x.ev \ {"ERR"} = reg[f].events
                         ELSE x.ev \subseteq reg[f].events

Batches ==
    {q \in SeqsUpTo({x \in ReadyEvents : Reportable(x)}, max_events) :
        /\ q # <<>>
        /\ \A i, j \in 1 .. Len(q) : i # j => q[i].token # q[j].token}

\* the lone buffer's part of the state while the proxy runs: not in use
NoUnit == [op |-> "none", before |-> buffer_init, input |-> <<>>,
           buf |-> buffer_init, ret |-> 0]

\* the framer's part of the state while the proxy runs: not in use
NoFramer == [data |-> <<>>, res |-> [req |-> NullReq, rc |-> 0],
             first |-> [req |-> NullReq, rc |-> 0], first_len |-> 0,
             stream |-> [req |-> NullReq, rc |-> 0]]

InitFrom(w) ==
    /\ mode = w.mode
    /\ connections = w.connections
    /\ free_list = w.free_list
    /\ free_count = w.free_count
    /\ active_connections = w.active_connections
    /\ reg = w.reg
    /\ openfds = w.openfds
    /\ log = w.log

\* the proxy after main has set it up, before the first loop test
Started ==
    /\ initialiser \in {"proxy_init", "proxy_init_http"}
    /\ InitFrom(IF initialiser = "proxy_init_http"
                THEN proxy_init_http(CallocConfig)
                ELSE proxy_init(CallocConfig))
    /\ events = <<>>
    /\ running = TRUE
    /\ phase = "run"
    /\ steps = 0
    /\ framer = NoFramer
    /\ unit = NoUnit

Init == Started /\ max_events = MaxBatch

\* the proxy set up by proxy_init_http, when epoll_wait can hand back
\* batches of three events
WideInit == Started /\ initialiser = "proxy_init_http" /\ max_events = MaxBatch + 2

\* The batch in hand: the rest of the current one, or, inside epoll_wait,
\* any batch it can return.
Pending ==
    IF steps >= MaxSteps THEN {}
    ELSE IF phase = "wait" THEN Batches
    ELSE IF phase = "run" /\ events # <<>> THEN {events}
    ELSE {}

\* the for loop moves on to the rest of the batch
Affordable(calls) == steps + (IF calls = 0 THEN 1 ELSE calls) <= MaxSteps

Advance(q, calls) ==
    /\ events' = Tail(q)
    /\ steps' = steps + (IF calls = 0 THEN 1 ELSE calls)
    /\ phase' = "run"
    /\ UNCHANGED <<initialiser, max_events, running, framer, unit>>

DispatchAccept ==
    \E q \in Pending :
        /\ Head(q).token = NULL
        /\ \E accepts \in AcceptScripts :
              /\ Affordable(Len(accepts))
              /\ Commit(handle_accept(Begin("accept"), accepts))
              /\ Advance(q, Len(accepts))

DispatchError ==
    \E q \in Pending :
        /\ Head(q).token # NULL
        /\ "ERR" \in Head(q).ev
        /\ Commit(handle_error(Ran(EventOn("error", Head(q).token, Head(q).ev), "error"),
                                Head(q).token))
        /\ Advance(q, 0)

\* variant: handle_write is called whatever handle_connect has found
ConnectedWrite_always(q, w, conn) ==
    \E ws \in WritesFor(w, conn) :
        /\ Affordable(Len(ws))
        /\ Commit(handle_write(Ran(w, "write"), conn, ws))
        /\ Advance(q, Len(ws))

\* proxy_run after handle_connect (w): handle_write if the state is CONNECTED
ConnectedWrite(q, w, conn) ==
    IF w.connections[conn].state = "CONNECTED"
    THEN \E ws \in WritesFor(w, conn) :
            /\ Affordable(Len(ws))
            /\ Commit(handle_write(Ran(w, "write"), conn, ws))
            /\ Advance(q, Len(ws))
    ELSE Commit(w) /\ Advance(q, 0)

DispatchConnect ==
    \E q \in Pending :
        /\ Head(q).token # NULL
        /\ "ERR" \notin Head(q).ev
        /\ connections[Head(q).token].state = "CONNECTING"
        /\ "OUT" \in Head(q).ev
        /\ \E so \in {"ok", "err", "fail"} :
              ConnectedWrite(q, handle_connect(Ran(EventOn("connect", Head(q).token,
                                                           Head(q).ev), "connect"),
                                               Head(q).token, so),
                             Head(q).token)

\* proxy_run after the write half: w1 is the state the read half starts
\* from, w2 the state it leaves when the upstream connect goes well
IoDone(q, w1, w2, conn, rs, calls) ==
    /\ Affordable(calls)
    /\ \E be \in BackendsFor(w2) :
          Commit(IF be = "ok" THEN w2 ELSE handle_read(Ran(w1, "read"), conn, rs, be))
    /\ Advance(q, calls)

IoRead(q, w1, conn, ev, calls) ==
    IF "IN" \in ev
    THEN \E rs \in ReadsFor(w1, conn) :
            IoDone(q, w1, handle_read(Ran(w1, "read"), conn, rs, "ok"), conn, rs,
                   calls + Len(rs))
    ELSE Commit(w1) /\ Affordable(calls) /\ Advance(q, calls)

IoWrite(q, w0, conn, ev) ==
    IF "OUT" \in ev
    THEN \E ws \in WritesFor(w0, conn) :
            IoRead(q, handle_write(Ran(w0, "write"), conn, ws), conn, ev, Len(ws))
    ELSE IoRead(q, w0, conn, ev, 0)

DispatchIO ==
    \E q \in Pending :
        /\ Head(q).token # NULL
        /\ "ERR" \notin Head(q).ev
        /\ ~(connections[Head(q).token].state = "CONNECTING" /\ "OUT" \in Head(q).ev)
        /\ IoWrite(q, EventOn("io", Head(q).token, Head(q).ev), Head(q).token, Head(q).ev)

\* while (running) finds the flag set and epoll_wait is called
LoopTest ==
    /\ phase = "run" /\ events = <<>> /\ running
    /\ phase' = "wait"
    /\ UNCHANGED <<initialiser, max_events, mode, connections, free_list, free_count,
                   active_connections, reg, openfds, events, running, steps, log,
                   framer, unit>>

\* epoll_wait returns no event: the timeout passed, or a signal interrupted it
WaitReturnsNothing ==
    /\ phase = "wait"
    /\ phase' = "run"
    /\ UNCHANGED <<initialiser, max_events, mode, connections, free_list, free_count,
                   active_connections, reg, openfds, events, running, steps, log,
                   framer, unit>>

\* SIGINT / SIGTERM
Signal ==
    /\ running /\ phase \in {"run", "wait"}
    /\ running' = FALSE
    /\ UNCHANGED <<initialiser, max_events, mode, connections, free_list, free_count,
                   active_connections, reg, openfds, events, phase, steps, log,
                   framer, unit>>

\* the while condition fails; main calls proxy_cleanup
Cleanup ==
    /\ phase = "run" /\ events = <<>> /\ ~running
    /\ Commit(proxy_cleanup(Begin("cleanup")))
    /\ phase' = "done"
    /\ UNCHANGED <<initialiser, max_events, events, running, steps, framer, unit>>

Next ==
    \/ DispatchAccept
    \/ DispatchError
    \/ DispatchConnect
    \/ DispatchIO
    \/ LoopTest
    \/ WaitReturnsNothing
    \/ Signal
    \/ Cleanup

Spec == Init /\ [][Next]_vars

WideSpec == WideInit /\ [][Next]_vars

\* ------------------------------------------------ the framer on its own
\* http_request_parse applied to a freshly initialised request and to longer
\* and longer input: data is the input so far, res the answer for it, first
\* the first answer that was Complete and first_len the input length then.
\* stream is the answer of the request state that has been handed every
\* shorter input before, as the state of a client is by its read loop.
FramerCells == RequestLines \cup HeaderLines \cup {"END", "B"}

\* what handle_accept hands the framer: calloc, then http_request_init
FreshRequest == http_request_init([NullReq EXCEPT !.ptr = "LIVE"])

ParseFresh(data) == http_request_parse(FreshRequest, data, Len(data))

FramerStarts(data) ==
    framer = [data |-> data, res |-> ParseFresh(data),
              first |-> ParseFresh(data),
              first_len |-> IF ParseFresh(data).rc = 1 THEN Len(data) ELSE 0,
              stream |-> ParseFresh(data)]

FramerInit ==
    /\ initialiser = "proxy_init_http"
    /\ InitFrom(proxy_init_http(CallocConfig))
    /\ events = <<>>
    /\ running = TRUE
    /\ phase = "run"
    /\ steps = 0
    /\ unit = NoUnit
    /\ max_events = MaxBatch
    /\ \E c \in FramerCells : FramerStarts(<<c>>)

\* the answer for the extended input, kept beside the first Complete one
FramerAnswers(data, res) ==
    framer' = [data |-> data, res |-> res,
               first |-> IF framer.first.rc # 1 THEN res ELSE framer.first,
               first_len |-> IF framer.first.rc # 1 /\ res.rc = 1
                             THEN Len(data) ELSE framer.first_len,
               stream |-> http_request_parse(framer.stream.req, data, Len(data))]

\* one more unit of input arrives and the whole input is parsed
FramerFeed ==
    /\ Len(framer.data) < MaxData
    /\ \E c \in FramerCells :
          FramerAnswers(Append(framer.data, c), ParseFresh(Append(framer.data, c)))
    /\ UNCHANGED <<initialiser, max_events, mode, connections, free_list, free_count,
                   active_connections, reg, openfds, events, running, phase, steps,
                   log, unit>>

FramerNext == FramerFeed

FramerSpec == FramerInit /\ [][FramerNext]_vars

\* ------------------------------------------------- a buffer on its own
\* The buffer calls applied one at a time to a single buffer, as the unit
\* test does: op is the last call, before the buffer it was applied to,
\* input the bytes it was given, buf the buffer it left and ret its result.
\* A buffer of the program is never drained without being reset.
ProgramBuffers ==
    {b \in [data : [1 .. BUFFER_SIZE -> {"NUL", "B"}],
            len : 0 .. BUFFER_SIZE, pos : 0 .. BUFFER_SIZE] :
        b.pos <= b.len /\ (b.pos = b.len => b.len = 0)}

AppendInputs == UNION {[1 .. n -> {"B", "R"}] : n \in 0 .. MaxAppend}

BufferInit ==
    /\ initialiser = "proxy_init_http"
    /\ InitFrom(proxy_init_http(CallocConfig))
    /\ events = <<>>
    /\ running = TRUE
    /\ phase = "run"
    /\ steps = 0
    /\ framer = NoFramer
    /\ max_events = MaxBatch
    /\ \E b \in ProgramBuffers :
          unit = [op |-> "none", before |-> b, input |-> <<>>, buf |-> b, ret |-> 0]

UnitCalled(op, input, buf, ret) ==
    /\ unit' = [op |-> op, before |-> unit.buf, input |-> input, buf |-> buf,
                ret |-> ret]
    /\ UNCHANGED <<initialiser, max_events, mode, connections, free_list, free_count,
                   active_connections, reg, openfds, events, running, phase, steps,
                   log, framer>>

UnitAppended(bytes, r) == UnitCalled("append", bytes, r.buf, r.n)

UnitAppend == \E bytes \in AppendInputs : UnitAppended(bytes, buffer_append(unit.buf, bytes))

UnitInit == UnitCalled("init", <<>>, buffer_init, 0)

UnitClear == UnitCalled("clear", <<>>, buffer_clear(unit.buf), 0)

UnitCompact == UnitCalled("compact", <<>>, buffer_compact(unit.buf), 0)

UnitWritten(r) == UnitCalled("write", <<>>, r.buf, r.n)

UnitWrite ==
    \E k \in 1 .. BUFFER_SIZE : UnitWritten(buffer_write_fd(unit.buf, WriteTakes(k)))

BufferNext ==
    \/ UnitAppend
    \/ UnitInit
    \/ UnitClear
    \/ UnitCompact
    \/ UnitWrite

BufferSpec == BufferInit /\ [][BufferNext]_vars

\* ------------------------------------------------------------- properties
Live(s) == connections[s].state # "CLOSED"

Buffers(s) == {connections[s].read_buf, connections[s].write_buf}

\* C1: after every event, for all slots s, if s.peer = p (not none) then
\* p.peer = s.
C1_PeerSymmetry ==
    \A s \in Slots :
        connections[s].peer # NULL => connections[connections[s].peer].peer = s

\* C2: every slot index is either exactly once in the free list or belongs
\* to a non-FREE slot, never both and never twice in the free list, and
\* free_count + (number of non-FREE slots) = N.
C2_FreeListIntegrity ==
    /\ free_count \in 0 .. MAX_CONNECTIONS
    /\ \A s \in Slots :
          IF Live(s)
          THEN \A i \in 0 .. (free_count - 1) : free_list[i] # s
          ELSE Cardinality({i \in 0 .. (free_count - 1) : free_list[i] = s}) = 1
    /\ free_count + Cardinality({s \in Slots : Live(s)}) = MAX_CONNECTIONS

\* C2's case: a slot was closed with others still live, and its index is
\* on the free list again
C2_SlotReturned ==
    /\ free_count \in 1 .. (MAX_CONNECTIONS - 1)
    /\ \E s \in log.closed : ~Live(s) /\ free_list[free_count - 1] = s

\* C3: after connection_close(s) returns, s is FREE and no non-FREE slot has
\* peer = s.
C3_CloseBreaksLink ==
    \A s \in log.closed :
        ~Live(s) => \A t \in Slots : Live(t) => connections[t].peer # s

\* C4: after every event, every FREE slot has fd = -1, peer = none and both
\* of its buffers empty (pos = len = 0).
C4_FreeSlotsClean ==
    \A s \in Slots :
        ~Live(s) => /\ connections[s].fd = -1
                    /\ connections[s].peer = NULL
                    /\ \A b \in Buffers(s) : b.pos = 0 /\ b.len = 0

\* C5: after every event, every non-FREE slot has fd >= 0 and that fd is
\* registered with the multiplexer with the slot as its token.
C5_LiveSlotsRegistered ==
    \A s \in Slots :
        Live(s) => /\ connections[s].fd >= 0
                   /\ connections[s].fd \in openfds
                   /\ reg[connections[s].fd].on
                   /\ reg[connections[s].fd].token = s

\* C5's case: a dispatch has left a client and its upstream both live
C5_PairRegistered ==
    /\ log.dispatched
    /\ \E c, u \in Slots :
          /\ Live(c) /\ Live(u) /\ connections[c].is_client /\ ~connections[u].is_client
          /\ connections[c].peer = u /\ connections[u].peer = c

\* C6: for every buffer of every slot, 0 <= pos <= len <= C.
C6_BufferBounds ==
    \A s \in Slots : \A b \in Buffers(s) :
        0 <= b.pos /\ b.pos <= b.len /\ b.len <= BUFFER_SIZE

\* C6's case: a write took part of a buffer, and some buffer is full
C6_PartlyDrained ==
    /\ \E s \in Slots : 0 < connections[s].write_buf.pos
                        /\ connections[s].write_buf.pos < connections[s].write_buf.len
    /\ \E s \in Slots : \E b \in Buffers(s) : b.len = BUFFER_SIZE

\* the slots that were live when connection_alloc was first called with an
\* empty free list during this event
LiveAtAlloc == {s \in Slots : log.at_alloc[s].state # "CLOSED"}

KeepsIdentity(s) ==
    /\ connections[s].state = log.at_alloc[s].state
    /\ connections[s].fd = log.at_alloc[s].fd
    /\ connections[s].peer = log.at_alloc[s].peer

Refused ==
    /\ log.null_alloc = log.starved
    /\ log.rejected # {}
    /\ log.rejected \cap openfds = {}

\* C7 as stated: whenever alloc is invoked with an empty free list it
\* returns no slot, the newcomer's fd is closed, and every slot that was
\* live before is still live with the same state, fd, peer and buffer
\* contents.
C7_ExhaustionChangesNothing ==
    log.starved # {} =>
        /\ Refused
        /\ \A s \in LiveAtAlloc :
              /\ KeepsIdentity(s)
              /\ connections[s].read_buf = log.at_alloc[s].read_buf
              /\ connections[s].write_buf = log.at_alloc[s].write_buf

\* C7 amended: whenever alloc is invoked with an empty free list it returns
\* no slot, the newcomer's fd is closed, and every slot that was live before
\* is still live with the same state, fd and peer; its buffers are the same
\* too, except the write buffer of the client whose dispatch made the call,
\* which now holds the 503 response from its first cell.
C7_ExhaustionNeverEvicts ==
    log.starved # {} =>
        /\ Refused
        /\ \A s \in LiveAtAlloc :
              /\ KeepsIdentity(s)
              /\ connections[s].read_buf = log.at_alloc[s].read_buf
              /\ IF s = log.requester
                 THEN /\ connections[s].write_buf.pos = 0
                      /\ connections[s].write_buf.len = Len(ErrorResponse(503))
                      /\ Slice(connections[s].write_buf.data, 0, Len(ErrorResponse(503)))
                             = ErrorResponse(503)
                 ELSE connections[s].write_buf = log.at_alloc[s].write_buf

\* C7's case: a dispatch found the pool exhausted
C7_DispatchStarved ==
    /\ log.starved = {"dispatch"}
    /\ log.requester # NULL
    /\ Cardinality(LiveAtAlloc) = MAX_CONNECTIONS

\* C8: a live slot whose live peer's write buffer is full has no readable
\* interest registered with the multiplexer.
C8_Backpressure ==
    \A s \in Slots :
        LET p == connections[s].peer
        IN (/\ Live(s) /\ p # NULL /\ Live(p) /\ connections[p].peer = s
            /\ buffer_is_full(connections[p].write_buf)
            /\ reg[connections[s].fd].on)
           => "IN" \notin reg[connections[s].fd].events

\* C9: after the stream-mode initialiser (proxy_init) the configured mode
\* is stream; after the HTTP initialiser the mode is HTTP.
C9_ModeAsInitialised ==
    /\ initialiser = "proxy_init" => mode = "TCP"
    /\ initialiser = "proxy_init_http" => mode = "HTTP"

\* C10: in a proxy started by the stream-mode initialiser, when the accept
\* handler returns each accepted client that obtained a slot is paired with
\* an upstream slot and both are registered with the multiplexer.
C10_AcceptPairsUpstream ==
    (initialiser = "proxy_init" /\ log.handler = "accept") =>
        \A c \in log.accepted :
            LET u == connections[c].peer
            IN /\ u # NULL
               /\ Live(u) /\ ~connections[u].is_client /\ connections[u].peer = c
               /\ reg[connections[c].fd].on /\ reg[connections[c].fd].token = c
               /\ reg[connections[u].fd].on /\ reg[connections[u].fd].token = u


\* C11: when end of stream on one side closes the pair, the bytes already
\* read from that side and buffered for its peer have all been written to
\* the peer's socket: none is still waiting in the peer's write buffer.
C11_EofFlushesPeer == log.eof_unsent = {}

IsPrefix(a, b) == Len(a) <= Len(b) /\ \A i \in 1 .. Len(a) : a[i] = b[i]

\* C12: the bytes an event appends to a destination's write buffer are, in
\* order, the first of the bytes read from the source and not yet passed
\* on (those waiting in its read buffer when the event began, then those
\* read in the event): none duplicated, skipped, reordered or invented.
C12_CopyPreserving == IsPrefix(log.tx, log.pending \o log.rx)

\* C13: a synthesized error response is delivered: when the socket of a
\* client is reported writable while an error response waits unwritten in
\* its write buffer, the handler calls write() for it (only handle_write
\* writes, and the writable edge is reported once).
C13_ErrorResponseWritten ==
    (log.offered \cap Synthesized # {}) => log.write_calls > 0

\* C14: when the framer reports a malformed request for a client,
\* requests_error goes up by one, the client's write buffer holds the 400
\* response, and handle_http_request is not called: no upstream slot is
\* allocated and none is paired with the client.
C14_MalformedRejected ==
    log.malformed # NULL =>
        /\ log.requests_error = 1
        /\ ~log.dispatched
        /\ log.starved = {}
        /\ Live(log.malformed)
        /\ connections[log.malformed].peer = NULL
        /\ Slice(connections[log.malformed].write_buf.data, 0,
                 connections[log.malformed].write_buf.len) = ErrorResponse(400)
        /\ connections[log.malformed].write_buf.pos = 0

\* a POST with neither Content-Length nor chunked has been reported malformed
C14_PostWithoutFraming ==
    /\ log.malformed # NULL
    /\ connections[log.malformed].http_req.method = "POST"
    /\ connections[log.malformed].http_req.content_length < 0
    /\ ~connections[log.malformed].http_req.chunked

\* C15: a client whose request is still incomplete when it has grown beyond
\* what the proxy takes in is answered with a 413: after the event the client
\* is still there and its write buffer holds the 413 response.
C15_OversizeAnswered ==
    log.overflowed # NULL =>
        /\ Live(log.overflowed)
        /\ Unsent(connections[log.overflowed].write_buf) = {"S413"}

\* C16: when the upstream connection for a waiting client cannot be made
\* (no socket, or the pending connect ends in an error), the client is not
\* closed and its write buffer holds the 502 response.
C16_UnreachableAnswered ==
    log.unreachable # NULL =>
        /\ Live(log.unreachable)
        /\ Unsent(connections[log.unreachable].write_buf) = {"S502"}

\* C18: body bytes a client sends after the headers of a chunked request
\* that has been dispatched are passed to the same upstream as raw bytes:
\* they are not treated as a new request (no second dispatch, the client
\* stays paired with that upstream) and none is discarded (what was read is
\* either appended for delivery or still waiting in the read buffer).
C18_ChunkedBodyPassedThrough ==
    (log.body_from # NULL /\ log.rx # <<>>) =>
        /\ ~log.dispatched
        /\ connections[log.body_from].peer = log.body_to
        /\ log.tx \o Unread(connections[log.body_from].read_buf) = log.pending \o log.rx

\* C19: framer monotonicity: once the parse of some input has returned
\* Complete with total_length T, the parse of every extension of that input
\* returns Complete with the same T and the same method, version,
\* content_length, chunked and keep_alive.
C19_FramerMonotone ==
    framer.first.rc = 1 =>
        /\ framer.res.rc = 1
        /\ framer.res.req.is_complete
        /\ framer.res.req.total_length = framer.first.req.total_length
        /\ framer.res.req.method = framer.first.req.method
        /\ framer.res.req.version = framer.first.req.version
        /\ framer.res.req.content_length = framer.first.req.content_length
        /\ framer.res.req.chunked = framer.first.req.chunked
        /\ framer.res.req.keep_alive = framer.first.req.keep_alive

\* an input was Complete and has since been extended by a second blank line
C19_ExtendedPastComplete ==
    /\ framer.first.rc = 1
    /\ framer.first_len > 0
    /\ Len(framer.data) > framer.first_len
    /\ framer.data[Len(framer.data)] = "END"

\* every slot is free, the free list holds each index once, nothing is counted
PoolAllFree ==
    /\ \A i \in Slots : connections[i].state = "CLOSED"
    /\ free_count = MAX_CONNECTIONS
    /\ {free_list[k] : k \in 0 .. MAX_CONNECTIONS - 1} = Slots
    /\ active_connections = 0

C21_AppendContract ==
    unit.op = "append" =>
        /\ unit.ret = Min(Len(unit.input), BUFFER_SIZE - unit.before.len)
        /\ unit.buf.len = unit.before.len + unit.ret
        /\ unit.buf.pos = unit.before.pos
        /\ \A i \in 1 .. BUFFER_SIZE :
              unit.buf.data[i] =
                  IF i > unit.before.len /\ i <= unit.before.len + unit.ret
                  THEN unit.input[i - unit.before.len]
                  ELSE unit.before.data[i]
        /\ (buffer_is_empty(unit.before) /\ Len(unit.input) <= BUFFER_SIZE) =>
              /\ unit.buf.len = Len(unit.input)
              /\ Slice(unit.buf.data, 0, unit.buf.len) = unit.input

\* an append that had to be cut short, on a buffer partly consumed before
C21_AppendCutShort ==
    /\ unit.op = "append"
    /\ unit.before.pos > 0
    /\ 0 < unit.ret
    /\ unit.ret < Len(unit.input)

\* C22: after buffer_init, and after buffer_clear applied to a buffer in any
\* state, the buffer has len = 0 and pos = 0, is_empty is true and is_full
\* is false.
C22_InitAndClearEmpty ==
    unit.op \in {"init", "clear"} =>
        /\ unit.buf.len = 0
        /\ unit.buf.pos = 0
        /\ buffer_is_empty(unit.buf)
        /\ ~buffer_is_full(unit.buf)

\* a full buffer, partly consumed, has been cleared
C22_FullBufferCleared ==
    /\ unit.op = "clear"
    /\ buffer_is_full(unit.before)
    /\ unit.before.pos > 0

\* C23: within one batch, an event recorded for a connection that an
\* earlier event of the batch has closed is never applied to a different
\* connection that was given the same slot meanwhile: no handler is run
\* for such an event on the slot's new occupant.
C23_StaleEventNotApplied == log.stale = NULL

\* C24: bytes read from an upstream socket are appended only to the write
\* buffer of the client connection whose request was dispatched to that
\* upstream, and only while that client is still open: never to a slot that
\* is free or that now serves a different client connection.
C24_UpstreamBytesReachOwner == log.misdelivered = {}

\* C25: every byte the upstream sends in response to a dispatched request
\* is written to the requesting client before that client is closed,
\* provided neither socket reports an error: when the upstream ends its
\* response (read() returns 0) and the pair is closed, the client's write
\* buffer holds no response byte that was never written.
C25_ResponseWrittenBeforeClose ==
    log.response_lost # NULL => connections[log.response_lost].state # "CLOSED"

\* C26: each framed request is dispatched at most once: when bytes arrive
\* from a client that is in WRITING_RESPONSE, no upstream slot is allocated
\* for it and no request bytes are copied towards a backend.
C26_DispatchedOnce ==
    log.responding # NULL =>
        /\ log.responding \notin log.upstream_for
        /\ log.tx = <<>>

C28_UpstreamHasLiveClient ==
    mode = "HTTP" =>
        \A s \in Slots :
            (Live(s) /\ ~connections[s].is_client) =>
                /\ connections[s].peer # NULL
                /\ Live(connections[s].peer)
                /\ connections[connections[s].peer].is_client

\* C29: after every event, every slot that is not free and whose write
\* buffer is not empty is registered with the multiplexer for writable
\* events.
C29_BufferedBytesAwaitWritable ==
    \A s \in Slots :
        (Live(s) /\ ~buffer_is_empty(connections[s].write_buf)) =>
            /\ connections[s].fd \in Fds
            /\ reg[connections[s].fd].on
            /\ reg[connections[s].fd].token = s
            /\ "OUT" \in reg[connections[s].fd].events

\* C30: in the read drain, reaching the buffer-full condition (the
\* destination's write buffer and the source's read buffer both full) ends
\* the drain with both connections of the pair still open.
C30_FullBuffersKeepPair == \A s \in log.full_pair : Live(s)

\* C31: in HTTP mode every assignment an event makes to the state of a
\* client slot follows one of: FREE to READING_REQUEST (accept, which writes
\* CONNECTED on the way), READING_REQUEST to REQUEST_COMPLETE,
\* REQUEST_COMPLETE to WRITING_RESPONSE, WRITING_RESPONSE to READING_REQUEST,
\* any state to FREE; an assignment of the state the slot already has
\* changes nothing.
ClientTransitions ==
    {<<"CLOSED", "CONNECTED">>, <<"CONNECTED", "READING_REQUEST">>,
     <<"READING_REQUEST", "REQUEST_COMPLETE">>,
     <<"REQUEST_COMPLETE", "WRITING_RESPONSE">>,
     <<"WRITING_RESPONSE", "READING_REQUEST">>}

C31_ClientTransitions ==
    \A m \in log.moves :
        m \in ClientTransitions \/ m[2] = "CLOSED" \/ m[1] = m[2]

\* C32: an upstream slot in CONNECTING becomes CONNECTED only in an event
\* that handles its writable edge with SO_ERROR = 0, and when SO_ERROR is
\* not 0 or cannot be read the slot is free at the end of that event.
ConnectCompletes(s) ==
    /\ connections'[s].state = "CONNECTED" =>
           (log'.connect_on = s /\ log'.so = "ok")
    /\ (log'.connect_on = s /\ log'.so # "ok") => connections'[s].state = "CLOSED"

C32_ConnectCompletion ==
    [][\A s \in Slots :
          (connections[s].state = "CONNECTING" /\ ~connections[s].is_client
              /\ log' # log) => ConnectCompletes(s)]_vars

\* C34: in HTTP mode, after every event, every slot in READING_REQUEST has
\* a request state attached and that state's is_complete flag is false.
C34_ReadingHasOpenFramer ==
    \A s \in Slots :
        (mode = "HTTP" /\ connections[s].state = "READING_REQUEST") =>
            /\ connections[s].http_req.ptr = "LIVE"
            /\ ~connections[s].http_req.is_complete

\* a client that has read part of a request and waits for the rest
C34_ReadingPartOfRequest ==
    \E s \in Slots :
        /\ mode = "HTTP" /\ connections[s].state = "READING_REQUEST"
        /\ log.handler = "io" /\ log.rx # <<>>
        /\ connections[s].read_buf.len > 0
        /\ connections[s].http_req.headers_end_offset = 0

\* C35: after a successful HTTP dispatch the upstream's write buffer holds
\* exactly the first total_length bytes of the client's read buffer (pos 0,
\* len total_length), the client's read buffer is empty, the client has the
\* request's keep_alive preference, the two are paired, the upstream is
\* registered for writable events and the client is in WRITING_RESPONSE.
HandedOver(client, backend, total) ==
    /\ total <= log.had.len - log.had.pos
    /\ connections[backend].write_buf.pos = 0
    /\ connections[backend].write_buf.len = total
    /\ \A i \in 1 .. total :
           connections[backend].write_buf.data[i] = log.had.data[log.had.pos + i]
    /\ buffer_is_empty(connections[client].read_buf)
    /\ connections[client].keep_alive = connections[client].http_req.keep_alive
    /\ connections[client].peer = backend
    /\ connections[backend].peer = client
    /\ connections[backend].fd \in Fds
    /\ reg[connections[backend].fd].on
    /\ reg[connections[backend].fd].token = backend
    /\ "OUT" \in reg[connections[backend].fd].events
    /\ connections[client].state = "WRITING_RESPONSE"

Dispatched == log.handed # <<>> /\ log.handed[1] \notin log.closed

C35_DispatchHandsOver ==
    Dispatched =>
        HandedOver(log.handed[1], log.handed[2],
                   connections[log.handed[1]].http_req.total_length)

\* the framing decision as the specification words it: res is the framer's
\* answer for len units of input whose headers end at e
Framed(res, len, e) ==
    /\ res.req.headers_end_offset = e
    /\ IF res.req.chunked
       THEN res.rc = 1 /\ res.req.total_length = e
       ELSE IF res.req.content_length >= 0
       THEN /\ res.req.total_length = e + res.req.content_length
            /\ res.rc = (IF len >= res.req.total_length THEN 1 ELSE 0)
       ELSE IF res.req.method \in {"GET", "HEAD", "DELETE"}
       THEN res.rc = 1 /\ res.req.total_length = e
       ELSE res.rc = -1

\* the input holds the end of the headers and starts with a valid request line
HasRequestLine(data, e) == e > 1 /\ data[1] \in RequestLines

\* every line between the request line and the blank line is a header line
HeadersWellFormed(data, e) == \A i \in 2 .. (e - 1) : data[i] \in HeaderLines

C37_StreamingSafe ==
    /\ framer.stream.rc = framer.res.rc
    /\ Len(framer.stream.req.headers) = Len(framer.res.req.headers)
    /\ framer.stream.req.content_length = framer.res.req.content_length
    /\ framer.stream.req.total_length = framer.res.req.total_length
    /\ framer.stream.req.keep_alive = framer.res.req.keep_alive

\* C38: for one event on a connection slot: with an error, hangup or
\* peer-closed edge only the teardown runs; else a writable edge on a
\* CONNECTING slot runs the connect completion, followed by the write drain
\* only if the slot became CONNECTED; else the write drain runs for a
\* writable edge and after it the read drain for a readable edge.
Drains(ev) ==
    (IF "OUT" \in ev THEN <<"write">> ELSE <<>>) \o
    (IF "IN" \in ev THEN <<"read">> ELSE <<>>)

C38_DispatchOrder ==
    log.on # NULL =>
        log.ran = IF "ERR" \in log.ev THEN <<"error">>
                  ELSE IF log.was = "CONNECTING" /\ "OUT" \in log.ev
                  THEN (IF log.so = "ok" THEN <<"connect", "write">> ELSE <<"connect">>)
                  ELSE Drains(log.ev)

\* an error edge reported together with a readable edge on a client that
\* had a request to read
C38_ErrorWithReadable ==
    /\ log.on # NULL /\ log.ev = {"ERR", "IN"}
    /\ log.was = "READING_REQUEST"
    /\ log.ran = <<"error">>

\* C39: closing a slot releases its request state: a slot that is free
\* holds no request state, neither a live one (leaked, or left for the next
\* occupant) nor a pointer to one that has been freed.
C39_FreeSlotHoldsNoRequest ==
    \A s \in Slots : ~Live(s) => connections[s].http_req.ptr = "NULL"

\* C40: the free list is a stack: connection_alloc hands out the slot that
\* was returned to the free list last (after closing a and then b the next
\* allocs return b and then a), and on a pool never used it hands out
\* slot 0.
C40_FreeListIsStack == log.unstacked = {}

\* a slot has been handed out while two returned slots were on the free list
C40_TakenFromTwoReturned == log.restacked # {} /\ log.unstacked = {}

=============================================================================
